---------------------------- MODULE Spec2Model ----------------------------
(***************************************************************************)
(* SEIR simulation on a static contact network (sim.py).                   *)
(*                                                                         *)
(* A population state `seir` is an N x 4 integer array: column S, E, I, R  *)
(* of row n holds the number of days node n has spent in that compartment  *)
(* (positive for the compartment the node is in, 0 for the others).  The   *)
(* step of _simulate marks a node that changes compartment with -1 in the  *)
(* new column and turns the mark into day 1 at the end of the step.        *)
(*                                                                         *)
(* Two specifications:                                                     *)
(*   Spec       visualize_sim: init_func, then one run of _simulate        *)
(*   SpecBatch  run_sim_batch: init_func, then num_sims runs of _simulate, *)
(*              each reduced by _find_num_susceptible_nodes                *)
(*                                                                         *)
(* Floats are modelled as exact rationals <<numerator, denominator>>.      *)
(***************************************************************************)
EXTENDS Integers, Sequences, FiniteSets, TLC

(* ------------------------------ bounds -------------------------------- *)

\* largest network (matrix.shape[0]) the model draws
MaxNodes == 2
\* largest num_steps
MaxSteps == 4
\* largest days_exposed / days_infectious
MaxDur == 1
\* largest num_to_infect
MaxSeed == 2
\* largest num_sims
MaxSims == 2

(* ----------------------- class State(IntEnum) ------------------------- *)

S == 0
E == 1
I == 2
R == 3

States == {S, E, I, R}

(* ------------------------------ inputs -------------------------------- *)

Nodes(n) == 0 .. (n - 1)

\* read_adj_list: an n x n 0/1 matrix, mirrored, so symmetric.  (A line
\* "i i" of the file would set a diagonal entry; the model draws none.)
Matrices(n) ==
    { m \in [Nodes(n) -> [Nodes(n) -> {0, 1}]] :
        \A a, b \in Nodes(n) : m[a][b] = m[b][a] /\ m[a][a] = 0 }

\* transmission_prob values the model draws: 0, 1/2 and 1
TransmissionProbs == { <<0, 1>>, <<1, 2>>, <<1, 1>> }

\* Disease = namedtuple('Disease', 'days_exposed days_infectious transmission_prob')
Diseases ==
    [ days_exposed : 0 .. MaxDur,
      days_infectious : 0 .. MaxDur,
      transmission_prob : TransmissionProbs ]

\* np.random.rand draws in [0, 1).  The model draws the two ends of the range
\* that matter: 0, which is below every positive exposure probability, and
\* 1 - (1/2)^(MaxNodes - 1), the largest exposure probability below 1 that
\* the model's transmission_prob values produce (MaxNodes - 1 infectious
\* neighbours at 1/2), which is below no probability but 1.  A node whose
\* exposure probability is strictly between 0 and 1 is therefore exposed
\* under one draw and spared under the other, as under draws from [0, 1).
Draws == { <<0, 1>>, <<2 ^ (MaxNodes - 1) - 1, 2 ^ (MaxNodes - 1)>> }

\* a <= b
RatLessOrEqual(a, b) == a[1] * b[2] <= b[1] * a[2]

\* a < b on rationals with positive denominators
RatLess(a, b) == a[1] * b[2] < b[1] * a[2]

(* --------------------------- the step engine -------------------------- *)

\* the threshold compared with >= instead of >
AfterToR_AtDuration(seir, disease) ==
    [ n \in DOMAIN seir |->
        IF seir[n][I] >= disease.days_infectious
        THEN [seir[n] EXCEPT ![R] = -1, ![I] = 0]
        ELSE seir[n] ]

\* removal one day later than the threshold
AfterToR_OneDayLate(seir, disease) ==
    [ n \in DOMAIN seir |->
        IF seir[n][I] > disease.days_infectious + 1
        THEN [seir[n] EXCEPT ![R] = -1, ![I] = 0]
        ELSE seir[n] ]

\* lines 70-72: Infectious to Removed
AfterToR(seir, disease) ==
    [ n \in DOMAIN seir |->
        IF seir[n][I] > disease.days_infectious
        THEN [seir[n] EXCEPT ![R] = -1, ![I] = 0]
        ELSE seir[n] ]

\* the threshold compared with >= instead of >
AfterToI_AtDuration(seir, disease) ==
    [ n \in DOMAIN seir |->
        IF seir[n][E] >= disease.days_exposed
        THEN [seir[n] EXCEPT ![I] = -1, ![E] = 0]
        ELSE seir[n] ]

\* line 76 left out: the Exposed entry is not cleared
AfterToI_KeepsE(seir, disease) ==
    [ n \in DOMAIN seir |->
        IF seir[n][E] > disease.days_exposed
        THEN [seir[n] EXCEPT ![I] = -1]
        ELSE seir[n] ]

\* lines 74-76: Exposed to Infectious
AfterToI(seir, disease) ==
    [ n \in DOMAIN seir |->
        IF seir[n][E] > disease.days_exposed
        THEN [seir[n] EXCEPT ![I] = -1, ![E] = 0]
        ELSE seir[n] ]

\* the nodes rule 1 has just marked Removed counted as well
i_filter_WithRemovedThisStep(seir) ==
    { j \in DOMAIN seir : seir[j][I] > 0 \/ seir[j][R] < 0 }

\* line 78: the columns of the matrix the product runs over
i_filter(seir) == { j \in DOMAIN seir : seir[j][I] > 0 }

\* the product without the adjacency matrix: every Infectious node counts
RECURSIVE ProdRow_AllNodes(_, _, _, _)
ProdRow_AllNodes(matrix, p, n, js) ==
    IF js = {} THEN <<1, 1>>
    ELSE LET j == CHOOSE x \in js : TRUE
             rest == ProdRow_AllNodes(matrix, p, n, js \ {j})
         IN  << (p[2] - p[1]) * rest[1], p[2] * rest[2] >>

\* np.prod(..., axis=1) of row n over the columns js, as <<num, den>>:
\* each factor is 1 - matrix[n][j] * transmission_prob
RECURSIVE ProdRow(_, _, _, _)
ProdRow(matrix, p, n, js) ==
    IF js = {} THEN <<1, 1>>
    ELSE LET j == CHOOSE x \in js : TRUE
             rest == ProdRow(matrix, p, n, js \ {j})
         IN  << (p[2] - matrix[n][j] * p[1]) * rest[1], p[2] * rest[2] >>

\* the product itself, without 1 - ...
to_e_probs_NotComplemented(matrix, seir, disease) ==
    [ n \in DOMAIN seir |->
        ProdRow(matrix, disease.transmission_prob, n, i_filter(seir)) ]

\* line 79: 1 - prod, per node
to_e_probs(matrix, seir, disease) ==
    [ n \in DOMAIN seir |->
        LET pr == ProdRow(matrix, disease.transmission_prob, n, i_filter(seir))
        IN  << pr[2] - pr[1], pr[2] >> ]

\* the mask without its Susceptible half
to_e_filter_AnyCompartment(matrix, seir, disease, probs) ==
    { n \in DOMAIN seir :
        RatLess(probs[n], to_e_probs(matrix, seir, disease)[n]) }

\* line 80
to_e_filter(matrix, seir, disease, probs) ==
    { n \in DOMAIN seir :
        /\ seir[n][S] > 0
        /\ RatLess(probs[n], to_e_probs(matrix, seir, disease)[n]) }

\* line 81 marking column 2 instead of column 1
AfterToE_MarksInfectious(matrix, seir, disease, probs) ==
    [ n \in DOMAIN seir |->
        IF n \in to_e_filter(matrix, seir, disease, probs)
        THEN [seir[n] EXCEPT ![I] = -1, ![S] = 0]
        ELSE seir[n] ]

\* lines 81-82: Susceptible to Exposed
AfterToE(matrix, seir, disease, probs) ==
    [ n \in DOMAIN seir |->
        IF n \in to_e_filter(matrix, seir, disease, probs)
        THEN [seir[n] EXCEPT ![E] = -1, ![S] = 0]
        ELSE seir[n] ]

\* the day advanced in the S, E and I columns only
AddDay_NotRemoved(seir) ==
    [ n \in DOMAIN seir |->
        [ c \in States |->
            IF seir[n][c] > 0 /\ c # R THEN seir[n][c] + 1 ELSE seir[n][c] ] ]

\* line 84: seir[(seir > 0)] += 1
AddDay(seir) ==
    [ n \in DOMAIN seir |->
        [ c \in States |-> IF seir[n][c] > 0 THEN seir[n][c] + 1 ELSE seir[n][c] ] ]

\* line 85: seir[(seir < 0)] = 1
FirstDay(seir) ==
    [ n \in DOMAIN seir |->
        [ c \in States |-> IF seir[n][c] < 0 THEN 1 ELSE seir[n][c] ] ]

\* lines 84 and 85 in the other order
StepEngine_FirstDayThenAddDay(matrix, seir, disease, probs) ==
    AddDay(FirstDay(
        AfterToE(matrix, AfterToI(AfterToR(seir, disease), disease), disease, probs)))

\* rule 3 applied first, on the state as it was before the step
StepEngine_ExposureFirst(matrix, seir, disease, probs) ==
    FirstDay(AddDay(
        AfterToI(AfterToR(AfterToE(matrix, seir, disease, probs), disease), disease)))

\* lines 68-85: one pass of the loop body of _simulate
StepEngine(matrix, seir, disease, probs) ==
    FirstDay(AddDay(
        AfterToE(matrix, AfterToI(AfterToR(seir, disease), disease), disease, probs)))

(* ---------------------------- init_func ------------------------------- *)

\* line 131: np.zeros((num_nodes, 4))
Zeros(n) == [ x \in Nodes(n) |-> [ c \in States |-> 0 ] ]

\* lines 133-134: the nodes not drawn
susceptible_nodes(n, to_infect) ==
    { node \in Nodes(n) : \A k \in DOMAIN to_infect : to_infect[k] # node }

\* lines 131, 135 and 136: the zero array, then the Infectious column of the
\* drawn nodes set to 1, then the Susceptible column of the others
SeedState(n, to_infect) ==
    [ x \in Nodes(n) |->
        LET drawn == IF \E k \in DOMAIN to_infect : to_infect[k] = x
                     THEN [Zeros(n)[x] EXCEPT ![I] = 1]
                     ELSE Zeros(n)[x]
        IN  IF x \in susceptible_nodes(n, to_infect)
            THEN [drawn EXCEPT ![S] = 1]
            ELSE drawn ]

(* ------------------------------- state -------------------------------- *)

VARIABLES
    matrix,         \* read_adj_list(matrix_file_name)
    disease,        \* read_disease(disease_file_name)[0]
    num_to_infect,  \* the closure variable of init_func
    num_steps,
    num_sims,       \* 0 under Spec: visualize_sim takes no num_sims
    pc,             \* "init", "call", "loop", "done", "raised"
    initial_seir,   \* the result of init_func, passed as starting_seir
    seir,           \* the working copy of _simulate
    seirs,          \* the recorded snapshots; seirs[k] is seirs[k-1, :, :]
    init_calls,     \* how many times init_func has been called
    starts,         \* the starting_seir of each call of _simulate so far
    num_susceptible, \* results of _find_num_susceptible_nodes, one per run
    result,         \* the fraction returned, <<num, den>>; <<>> before
    vis_str         \* the text visualize_sim returns, as lines; <<>> before

vars == << matrix, disease, num_to_infect, num_steps, num_sims, pc,
           initial_seir, seir, seirs, init_calls, starts, num_susceptible,
           result, vis_str >>

\* matrix.shape[0]
NumNodes == Cardinality(DOMAIN matrix)

(* ------------------------------ reducer ------------------------------- *)

\* lines 91-93: np.sum(seirs[:, State.S.value, -1] > 0).  The first axis of
\* seirs is the step, the second the node, the third the compartment, so the
\* index reads, for every step, node State.S.value, compartment -1 (the last).
find_num_susceptible_nodes(h) ==
    Cardinality({ k \in DOMAIN h : h[k][S][R] > 0 })

\* sum(...) of a sequence of integers
RECURSIVE SumSeq(_)
SumSeq(q) == IF q = <<>> THEN 0 ELSE q[1] + SumSeq(Tail(q))

(* ----------------------------- serializer ----------------------------- *)

\* A text is a sequence of lines, each ended by '\n'; a line is the sequence
\* of its space-separated fields: <<node, code>>, <<>> for the empty line,
\* <<"end">> for the line 'end'.
BlankLine == <<>>
EndLine == << "end" >>

\* np.where(...)[0]: the members of a set of node indices in ascending order
RECURSIVE np_where(_)
np_where(ns) ==
    IF ns = {} THEN <<>>
    ELSE LET m == CHOOSE x \in ns : \A y \in ns : x <= y
         IN  << m >> \o np_where(ns \ {m})

\* lines 99-107: the lines f'{node} {code}' of the nodes whose entry in
\* column c is positive, joined by '\n'
group_lines(snapshot, c) ==
    LET nodes == np_where({ n \in DOMAIN snapshot : snapshot[n][c] > 0 })
    IN  [ k \in 1 .. Len(nodes) |-> << nodes[k], c >> ]

\* every group followed by '\n', the empty one too
appended_Unguarded(lines) == IF Len(lines) > 0 THEN lines ELSE << BlankLine >>

\* lines 108-115: a group is appended, with its closing '\n', when it is
\* not the empty string
appended(lines) == IF Len(lines) > 0 THEN lines ELSE <<>>

\* the Infectious lines written with the code of Exposed
step_text_InfectiousAsExposed(snapshot) ==
    appended(group_lines(snapshot, S)) \o appended(group_lines(snapshot, E))
        \o appended([ k \in 1 .. Len(group_lines(snapshot, I)) |->
                        << group_lines(snapshot, I)[k][1], E >> ])
        \o appended(group_lines(snapshot, R)) \o << BlankLine >>

\* lines 99-117: the text of one step, closed by the separating '\n'
step_text(snapshot) ==
    appended(group_lines(snapshot, S)) \o appended(group_lines(snapshot, E))
        \o appended(group_lines(snapshot, I)) \o appended(group_lines(snapshot, R))
        \o << BlankLine >>

\* lines 96-119
RECURSIVE make_visualization_str(_)
make_visualization_str(h) ==
    IF h = <<>> THEN << EndLine >>
    ELSE step_text(Head(h)) \o make_visualization_str(Tail(h))

(* ------------------------------ actions ------------------------------- *)

InitInputs ==
    /\ matrix \in UNION { Matrices(n) : n \in 1 .. MaxNodes }
    /\ disease \in Diseases
    /\ num_to_infect \in 0 .. MaxSeed
    /\ num_steps \in 0 .. MaxSteps
    /\ pc = "init"
    /\ initial_seir = <<>>
    /\ seir = <<>>
    /\ seirs = <<>>
    /\ init_calls = 0
    /\ starts = <<>>
    /\ num_susceptible = <<>>
    /\ result = <<>>
    /\ vis_str = <<>>

\* visualize_sim, lines 33-34
Init ==
    /\ InitInputs
    /\ num_sims = 0

\* run_sim_batch, lines 45-46
InitBatch ==
    /\ InitInputs
    /\ num_sims \in 0 .. MaxSims

\* lines 35 and 47, init_func (lines 128-137).  np.random.randint draws
\* num_to_infect nodes with replacement.  When every node is drawn,
\* susceptible_nodes is np.array([]), a float array, and indexing with it
\* raises IndexError.
InitFunc ==
    /\ pc = "init"
    /\ \E to_infect \in [1 .. num_to_infect -> Nodes(NumNodes)] :
          IF susceptible_nodes(NumNodes, to_infect) = {}
          THEN /\ pc' = "raised"
               /\ UNCHANGED initial_seir
          ELSE /\ pc' = "call"
               /\ initial_seir' = SeedState(NumNodes, to_infect)
    /\ init_calls' = init_calls + 1
    /\ UNCHANGED << vis_str, matrix, disease, num_to_infect, num_steps, num_sims,
                    seir, seirs, starts, num_susceptible, result >>

\* lines 63-65: the snapshots start empty, seir is a copy of starting_seir
BeginSimulate ==
    /\ seir' = initial_seir
    /\ seirs' = <<>>
    /\ starts' = Append(starts, initial_seir)
    /\ pc' = "loop"
    /\ UNCHANGED << vis_str, matrix, disease, num_to_infect, num_steps, num_sims,
                    initial_seir, init_calls, num_susceptible, result >>

\* line 36: visualize_sim calls _simulate
SimulateBegin ==
    /\ pc = "call"
    /\ BeginSimulate

\* line 48: the generator of run_sim_batch calls _simulate, num_sims times
BatchSimulateBegin ==
    /\ pc = "call"
    /\ Len(starts) < num_sims
    /\ BeginSimulate

\* the snapshot recorded before the step instead of after it
Step_RecordsBefore ==
    /\ pc = "loop"
    /\ Len(seirs) < num_steps
    /\ \E probs \in [Nodes(NumNodes) -> Draws] :
          /\ seir' = StepEngine(matrix, seir, disease, probs)
          /\ seirs' = Append(seirs, seir)
    /\ UNCHANGED << vis_str, matrix, disease, num_to_infect, num_steps, num_sims, pc,
                    initial_seir, init_calls, starts, num_susceptible, result >>

\* line 65 without np.copy: seir is starting_seir itself, written in place
Step_InPlace ==
    /\ pc = "loop"
    /\ Len(seirs) < num_steps
    /\ \E probs \in [Nodes(NumNodes) -> Draws] :
          /\ seir' = StepEngine(matrix, seir, disease, probs)
          /\ seirs' = Append(seirs, seir')
          /\ initial_seir' = seir'
    /\ UNCHANGED << vis_str, matrix, disease, num_to_infect, num_steps, num_sims, pc,
                    init_calls, starts, num_susceptible, result >>

\* lines 66-86: one iteration of the loop
Step ==
    /\ pc = "loop"
    /\ Len(seirs) < num_steps
    /\ \E probs \in [Nodes(NumNodes) -> Draws] :
          /\ seir' = StepEngine(matrix, seir, disease, probs)
          /\ seirs' = Append(seirs, seir')
    /\ UNCHANGED << vis_str, matrix, disease, num_to_infect, num_steps, num_sims, pc,
                    initial_seir, init_calls, starts, num_susceptible, result >>

\* line 88 and lines 37-40: _simulate returns, visualize_sim builds the summary
SimReturn ==
    /\ pc = "loop"
    /\ Len(seirs) = num_steps
    /\ num_susceptible' = Append(num_susceptible, find_num_susceptible_nodes(seirs))
    /\ result' = << find_num_susceptible_nodes(seirs), NumNodes >>
    /\ vis_str' = make_visualization_str(seirs)
    /\ pc' = "done"
    /\ UNCHANGED << matrix, disease, num_to_infect, num_steps, num_sims,
                    initial_seir, seir, seirs, init_calls, starts >>

\* line 88 and line 48: _simulate returns inside the generator of run_sim_batch
BatchReduce ==
    /\ pc = "loop"
    /\ Len(seirs) = num_steps
    /\ num_susceptible' = Append(num_susceptible, find_num_susceptible_nodes(seirs))
    /\ pc' = "call"
    /\ UNCHANGED << vis_str, matrix, disease, num_to_infect, num_steps, num_sims,
                    initial_seir, seir, seirs, init_calls, starts, result >>

\* lines 50-51: sum(x / matrix.shape[0] ...) / num_sims; num_sims = 0 divides
\* by zero
BatchReturn ==
    /\ pc = "call"
    /\ Len(starts) = num_sims
    /\ Len(num_susceptible) = num_sims
    /\ IF num_sims = 0
       THEN pc' = "raised" /\ UNCHANGED result
       ELSE /\ pc' = "done"
            /\ result' = << SumSeq(num_susceptible), NumNodes * num_sims >>
    /\ UNCHANGED << vis_str, matrix, disease, num_to_infect, num_steps, num_sims,
                    initial_seir, seir, seirs, init_calls, starts,
                    num_susceptible >>

Next == InitFunc \/ SimulateBegin \/ Step \/ SimReturn

Spec == Init /\ [][Next]_vars

NextBatch == InitFunc \/ BatchSimulateBegin \/ Step \/ BatchReduce \/ BatchReturn

SpecBatch == InitBatch /\ [][NextBatch]_vars

(* ------------------- _simulate on unchecked inputs -------------------- *)

\* utility.py lines 196-197: the init_func of utility.py sets the whole row
\* of every drawn node to 1 and leaves the other rows 0
UtilitySeedState(n, to_infect) ==
    [ x \in Nodes(n) |->
        IF \E k \in DOMAIN to_infect : to_infect[k] = x
        THEN [ c \in States |-> 1 ]
        ELSE Zeros(n)[x] ]

\* line 125: float(fields[2]) is kept as read; the model adds a value below
\* 0 and a value above 1 to the ones it draws
RawTransmissionProbs == TransmissionProbs \cup { << -1, 2 >>, << 3, 2 >> }

\* the starting_seir arrays the two init_func of the repository build
StartingSeirs(n, k) ==
    { SeedState(n, t) :
        t \in { u \in [1 .. k -> Nodes(n)] : susceptible_nodes(n, u) # {} } }
    \cup { UtilitySeedState(n, t) : t \in [1 .. k -> Nodes(n)] }

\* lines 54-55: _simulate called with arguments nothing has checked
InitSimulate ==
    /\ matrix \in UNION { Matrices(n) : n \in 1 .. MaxNodes }
    /\ disease \in [ days_exposed : 0 .. MaxDur,
                     days_infectious : 0 .. MaxDur,
                     transmission_prob : RawTransmissionProbs ]
    /\ num_to_infect \in 0 .. MaxSeed
    /\ num_steps \in -1 .. MaxSteps
    /\ initial_seir \in StartingSeirs(NumNodes, num_to_infect)
    /\ num_sims = 0
    /\ pc = "call"
    /\ seir = <<>>
    /\ seirs = <<>>
    /\ init_calls = 0
    /\ starts = <<>>
    /\ num_susceptible = <<>>
    /\ result = <<>>
    /\ vis_str = <<>>

\* lines 63-65: np.zeros raises ValueError for a negative num_steps;
\* starting_seir is copied as it is
SimulateCall ==
    /\ pc = "call"
    /\ IF num_steps < 0
       THEN /\ pc' = "raised"
            /\ UNCHANGED << vis_str, matrix, disease, num_to_infect, num_steps,
                            num_sims, initial_seir, seir, seirs, init_calls,
                            starts, num_susceptible, result >>
       ELSE BeginSimulate

\* line 88: return seirs
SimulateReturn ==
    /\ pc = "loop"
    /\ Len(seirs) = num_steps
    /\ pc' = "done"
    /\ UNCHANGED << vis_str, matrix, disease, num_to_infect, num_steps, num_sims,
                    initial_seir, seir, seirs, init_calls, starts,
                    num_susceptible, result >>

NextSimulate == SimulateCall \/ Step \/ SimulateReturn

SpecSimulate == InitSimulate /\ [][NextSimulate]_vars

(* ------------------------- reading a history -------------------------- *)

\* the compartments a row of seir puts its node in
CompartmentsOf(row) == { c \in States : row[c] > 0 }

\* a run of _simulate has begun
Running == starts # <<>>

\* the state of the current run after t steps: its starting_seir for t = 0,
\* the snapshot of step t (1-based) for t >= 1
Hist(t) == IF t = 0 THEN starts[Len(starts)] ELSE seirs[t]

\* node j is an Infectious neighbour of node n in state st
InfectiousNeighbour(st, n, j) == matrix[n][j] > 0 /\ st[j][I] > 0

(* ------------------------------- claims ------------------------------- *)

\* C1: every node of every recorded snapshot has exactly one positive entry
\* among its S, E, I, R entries (the seeded state has, and both durations
\* are >= 0).
C1_CompartmentExclusivity ==
    \A k \in DOMAIN seirs : \A n \in DOMAIN seirs[k] :
        Cardinality(CompartmentsOf(seirs[k][n])) = 1

\* a snapshot with one node Removed and another Infectious after its
\* exposure: rules 1, 2 and 3 have all acted
C1_Witness ==
    \E k \in DOMAIN seirs : \E n, m \in DOMAIN seirs[k] :
        /\ seirs[k][n][R] > 0
        /\ seirs[k][m][I] > 0
        /\ starts[Len(starts)][m][S] > 0

\* C2: a node that is Removed (and in no other compartment) in the snapshot
\* of step s is Removed (and in no other compartment) in the snapshot of
\* every later step of the run.
C2_RemovedTerminal ==
    \A s \in DOMAIN seirs : \A t \in DOMAIN seirs : \A n \in DOMAIN seirs[s] :
        (s < t /\ CompartmentsOf(seirs[s][n]) = {R})
            => CompartmentsOf(seirs[t][n]) = {R}

\* a node Removed for two steps beside an Infectious neighbour, with
\* transmission_prob = 1
C2_Witness ==
    \E s \in DOMAIN seirs : \E n, m \in DOMAIN matrix :
        /\ s + 2 \in DOMAIN seirs
        /\ disease.transmission_prob = <<1, 1>>
        /\ seirs[s][n][R] > 0
        /\ InfectiousNeighbour(seirs[s + 1], n, m)
        /\ seirs[s + 2][n][R] > 0

\* C4: a node whose Infectious day counter is 1 after t steps (t = 0: a
\* seeded node) is still Infectious, with day counter j + 1, after t + j
\* steps for every j <= days_infectious, and is Removed, with day counter 1,
\* after exactly t + days_infectious + 1 steps.
C4_InfectiousDwell ==
    Running =>
        \A t \in 0 .. Len(seirs) : \A n \in DOMAIN matrix :
            Hist(t)[n][I] = 1 =>
                /\ \A j \in 1 .. disease.days_infectious :
                       t + j <= Len(seirs) =>
                           /\ Hist(t + j)[n][I] = j + 1
                           /\ Hist(t + j)[n][R] = 0
                /\ t + disease.days_infectious + 1 <= Len(seirs) =>
                       /\ Hist(t + disease.days_infectious + 1)[n][I] = 0
                       /\ Hist(t + disease.days_infectious + 1)[n][R] = 1

\* a node that became Infectious during the run (not seeded), with
\* days_infectious >= 1, has been Removed days_infectious + 1 steps later
C4_Witness ==
    /\ Running
    /\ disease.days_infectious >= 1
    /\ \E t \in DOMAIN seirs : \E n \in DOMAIN matrix :
         /\ seirs[t][n][I] = 1
         /\ t + disease.days_infectious + 1 \in DOMAIN seirs
         /\ seirs[t + disease.days_infectious + 1][n][R] = 1

\* C5: a node that is Susceptible after t steps and has no Infectious
\* neighbour then is Susceptible after t + 1 steps; a node with no edges
\* that is seeded Susceptible is Susceptible in every snapshot.
C5_NoInfectiousNeighbourNoExposure ==
    Running =>
        /\ \A t \in 0 .. (Len(seirs) - 1) : \A n \in DOMAIN matrix :
               ( /\ Hist(t)[n][S] > 0
                 /\ ~ \E j \in DOMAIN matrix : InfectiousNeighbour(Hist(t), n, j) )
                   => CompartmentsOf(Hist(t + 1)[n]) = {S}
        /\ \A n \in DOMAIN matrix :
               ( /\ Hist(0)[n][S] > 0
                 /\ \A j \in DOMAIN matrix : matrix[n][j] = 0 )
                   => \A k \in DOMAIN seirs : CompartmentsOf(seirs[k][n]) = {S}

\* a node with no edges stayed Susceptible through a step in which another
\* node was Infectious and transmission_prob was 1
C5_Witness ==
    /\ Running
    /\ disease.transmission_prob = <<1, 1>>
    /\ \E k \in DOMAIN seirs : \E n, m \in DOMAIN matrix :
         /\ \A j \in DOMAIN matrix : matrix[n][j] = 0
         /\ Hist(k - 1)[m][I] > 0
         /\ Hist(k - 1)[m][I] <= disease.days_infectious
         /\ Hist(k - 1)[n][S] > 0
         /\ seirs[k][n][S] > 0

\* C6: with transmission_prob = 0 the nodes that are Susceptible in a
\* snapshot are exactly the nodes seeded Susceptible.
C6_ZeroTransmission ==
    (Running /\ disease.transmission_prob[1] = 0) =>
        \A k \in DOMAIN seirs : \A n \in DOMAIN matrix :
            (seirs[k][n][S] > 0) <=> (Hist(0)[n][S] > 0)

\* with transmission_prob = 0, a Susceptible node went through a step with
\* an Infectious neighbour that was not removed in that step
C6_Witness ==
    /\ Running
    /\ disease.transmission_prob[1] = 0
    /\ \E k \in DOMAIN seirs : \E n, m \in DOMAIN matrix :
         /\ Hist(k - 1)[n][S] > 0
         /\ InfectiousNeighbour(Hist(k - 1), n, m)
         /\ Hist(k - 1)[m][I] <= disease.days_infectious
         /\ seirs[k][n][S] > 0

\* Scenario A: two nodes, one edge, transmission_prob = 1, days_exposed = 0,
\* days_infectious = 1, node 0 seeded Infectious, node 1 Susceptible
ScenarioA ==
    /\ Running
    /\ NumNodes = 2
    /\ matrix[0][1] = 1
    /\ disease = [ days_exposed |-> 0, days_infectious |-> 1,
                   transmission_prob |-> <<1, 1>> ]
    /\ Hist(0) = ( 0 :> (S :> 0 @@ E :> 0 @@ I :> 1 @@ R :> 0)
                @@ 1 :> (S :> 1 @@ E :> 0 @@ I :> 0 @@ R :> 0) )

\* C7: in Scenario A the snapshot of step 1 is node 0 Infectious day 2 and
\* node 1 Exposed day 1, and the snapshot of step 2 is node 0 Removed day 1
\* and node 1 Infectious day 1, whatever the draws.
C7_ScenarioA ==
    ScenarioA =>
        /\ Len(seirs) >= 1 =>
               seirs[1] = ( 0 :> (S :> 0 @@ E :> 0 @@ I :> 2 @@ R :> 0)
                         @@ 1 :> (S :> 0 @@ E :> 1 @@ I :> 0 @@ R :> 0) )
        /\ Len(seirs) >= 2 =>
               seirs[2] = ( 0 :> (S :> 0 @@ E :> 0 @@ I :> 0 @@ R :> 1)
                         @@ 1 :> (S :> 0 @@ E :> 0 @@ I :> 1 @@ R :> 0) )

\* Scenario A has run two steps
C7_Witness == ScenarioA /\ Len(seirs) >= 2

\* the number of nodes whose S entry is positive in st
NumSusceptible(st) == Cardinality({ n \in DOMAIN st : st[n][S] > 0 })

\* C3: the count of the run just reduced is the number of nodes that are
\* Susceptible in the last snapshot of its history, and the value returned
\* by run_sim_batch is the sum of the counts over num_nodes * num_sims.
C3_FinalSusceptibleMean ==
    /\ (pc \in {"call", "done"} /\ num_susceptible # <<>> /\ num_steps >= 1) =>
           num_susceptible[Len(num_susceptible)] = NumSusceptible(seirs[Len(seirs)])
    /\ (pc = "done") =>
           result = << SumSeq(num_susceptible), NumNodes * num_sims >>

\* C8: when run_sim_batch returns, init_func has been called once per run.
C8_SeedingPerRun ==
    (pc = "done") => init_calls = num_sims

\* C9: the value run_sim_batch returns, for num_steps >= 1 and num_sims >= 1,
\* is at least 0 and at most 1.
C9_ResultInUnitInterval ==
    (pc = "done" /\ num_steps >= 1 /\ num_sims >= 1) =>
        /\ 0 <= result[1]
        /\ result[1] <= result[2]

\* C10 (states): no more than num_steps snapshots are recorded, exactly
\* num_steps when _simulate has returned, and snapshot k (1-based) is a
\* step of the state before it: of starting_seir for k = 1, of snapshot
\* k - 1 otherwise.
C10_Snapshots ==
    /\ Len(seirs) <= num_steps
    /\ (pc = "done") => Len(seirs) = num_steps
    /\ Running =>
           \A k \in DOMAIN seirs :
               \E probs \in [DOMAIN matrix -> Draws] :
                   seirs[k] = StepEngine(matrix, Hist(k - 1), disease, probs)

\* C10 (steps): a snapshot, once recorded, stays as it is.
C10_Kept ==
    \A k \in DOMAIN seirs : k \in DOMAIN seirs' /\ seirs'[k] = seirs[k]

\* C10: _simulate returns num_steps snapshots, snapshot i (0-based) being
\* the starting state stepped i + 1 times, and never rewrites a snapshot.
C10_History == [] C10_Snapshots /\ [][C10_Kept]_vars

\* _simulate has returned three snapshots or more
C10_Witness == pc = "done" /\ Len(seirs) >= 3 /\ Len(seirs) = num_steps

(* ------------------- reading the visualization text ------------------- *)

\* The reader of the visualization format: the lines up to each empty line
\* are one step, and the line 'end' ends the text.
RECURSIVE Blocks(_, _)
Blocks(text, cur) ==
    IF text = <<>> \/ Head(text) = EndLine THEN <<>>
    ELSE IF Head(text) = BlankLine
         THEN << cur >> \o Blocks(Tail(text), <<>>)
         ELSE Blocks(Tail(text), Append(cur, Head(text)))

\* the partition a step's lines '<node> <code>' describe
ParsePartition(block) ==
    [ c \in States |-> { block[k][1] : k \in { x \in DOMAIN block : block[x][2] = c } } ]

\* the partition of a snapshot: the nodes with a positive entry, per column
PartitionOf(snapshot) ==
    [ c \in States |-> { n \in DOMAIN snapshot : snapshot[n][c] > 0 } ]

\* the <<step, node, compartment>> entries of a history that are positive
PositiveEntries(h) ==
    { e \in (DOMAIN h) \X (DOMAIN matrix) \X States : h[e[1]][e[2]][e[3]] > 0 }

\* C11: the text visualize_sim returns ends with its only line 'end'; it
\* has one empty line per step and no other lines than those of the steps;
\* the lines before the k-th empty line are one line <<node, code>> for
\* every positive entry of snapshot k and nothing else, with the codes in
\* the order 0, 1, 2, 3; for num_steps = 0 the text is the line 'end' alone.
C11_VisualizationFormat ==
    (pc = "done") =>
        LET blocks == Blocks(vis_str, <<>>) IN
        /\ Len(vis_str) >= 1
        /\ \A k \in DOMAIN vis_str : (vis_str[k] = EndLine) <=> (k = Len(vis_str))
        /\ Cardinality({ k \in DOMAIN vis_str : vis_str[k] = BlankLine }) = Len(seirs)
        /\ Len(vis_str) = Cardinality(PositiveEntries(seirs)) + Len(seirs) + 1
        /\ Len(blocks) = Len(seirs)
        /\ \A k \in DOMAIN blocks :
               /\ { blocks[k][x] : x \in DOMAIN blocks[k] }
                      = { << e[2], e[3] >> : e \in { y \in PositiveEntries(seirs) : y[1] = k } }
               /\ \A x, y \in DOMAIN blocks[k] :
                      x < y => /\ blocks[k][x][2] <= blocks[k][y][2]
                               /\ blocks[k][x] # blocks[k][y]
        /\ (num_steps = 0) => vis_str = << EndLine >>

\* a returned text of two steps or more in which one step has an empty
\* group between two groups that are not
C11_Witness ==
    /\ pc = "done"
    /\ Len(seirs) >= 2
    /\ \E k \in DOMAIN seirs :
         /\ PartitionOf(seirs[k])[S] # {}
         /\ PartitionOf(seirs[k])[E] = {}
         /\ PartitionOf(seirs[k])[I] # {}

\* C12: reading the returned text step by step gives, for every step, the
\* partition of the nodes of that step's snapshot, every node being read
\* exactly once in the step.
C12_RoundTrip ==
    (pc = "done") =>
        LET blocks == Blocks(vis_str, <<>>) IN
        /\ Len(blocks) = Len(seirs)
        /\ \A k \in DOMAIN blocks :
               /\ ParsePartition(blocks[k]) = PartitionOf(seirs[k])
               /\ Len(blocks[k]) = NumNodes
               /\ { blocks[k][x][1] : x \in DOMAIN blocks[k] } = DOMAIN matrix

\* a returned text of three steps or more whose snapshots put nodes in
\* Exposed, Infectious and Removed
C12_Witness ==
    /\ pc = "done"
    /\ Len(seirs) >= 3
    /\ \A c \in {E, I, R} : \E k \in DOMAIN seirs : PartitionOf(seirs[k])[c] # {}

\* C13: _simulate returns no history when num_steps < 0 or when a node of
\* starting_seir is in no compartment or in more than one.
C13_AbortsOnInvalidInput ==
    ( \/ num_steps < 0
      \/ \E n \in DOMAIN initial_seir :
             Cardinality(CompartmentsOf(initial_seir[n])) # 1 )
        => pc # "done"

\* C14: with transmission_prob outside [0, 1] no step is applied and no
\* history is returned.
C14_RejectsProbabilityOutOfRange ==
    ( \/ RatLess(disease.transmission_prob, <<0, 1>>)
      \/ RatLess(<<1, 1>>, disease.transmission_prob) )
        => (seirs = <<>> /\ pc # "done")

\* C15: for num_to_infect <= number of nodes, init_func returns a state in
\* which exactly num_to_infect nodes are Infectious with day counter 1 and
\* all the others Susceptible with day counter 1.
C15_SeedsExactlyK ==
    (pc # "init" /\ num_to_infect <= NumNodes) =>
        /\ pc # "raised"
        /\ Cardinality({ n \in DOMAIN initial_seir :
               initial_seir[n] = [Zeros(NumNodes)[n] EXCEPT ![I] = 1] }) = num_to_infect
        /\ Cardinality({ n \in DOMAIN initial_seir :
               initial_seir[n] = [Zeros(NumNodes)[n] EXCEPT ![S] = 1] })
                   = NumNodes - num_to_infect

\* node j, Infectious in state st, is not moved to Removed by rule 1 of the
\* next step
StaysInfectious(st, j) == st[j][I] > 0 /\ st[j][I] <= disease.days_infectious

C18_OneTransitionPerStep ==
    Running =>
        \A t \in 0 .. (Len(seirs) - 1) : \A n \in DOMAIN matrix :
            \E c \in States :
                /\ CompartmentsOf(Hist(t)[n]) = {c}
                /\ \/ CompartmentsOf(Hist(t + 1)[n]) = {c}
                   \/ c # R /\ CompartmentsOf(Hist(t + 1)[n]) = {c + 1}

\* with days_exposed = 0, a node Susceptible, then Exposed, then Infectious
\* in three consecutive states
C18_Witness ==
    /\ Running
    /\ disease.days_exposed = 0
    /\ \E t \in 0 .. (Len(seirs) - 2) : \E n \in DOMAIN matrix :
         /\ Hist(t)[n][S] > 0
         /\ Hist(t + 1)[n][E] > 0
         /\ Hist(t + 2)[n][I] > 0

\* C19: in the snapshot after a step, the positive entry of a node is 1 when
\* that entry was not positive before the step (the node changed
\* compartment) and one more than before when it was (it did not), whatever
\* the compartment; the other entries are 0.
C19_DayCounter ==
    Running =>
        \A t \in 0 .. (Len(seirs) - 1) : \A n \in DOMAIN matrix : \A c \in States :
            IF Hist(t + 1)[n][c] > 0
            THEN Hist(t + 1)[n][c] = (IF Hist(t)[n][c] > 0 THEN Hist(t)[n][c] + 1 ELSE 1)
            ELSE Hist(t + 1)[n][c] = 0

\* a step after which one node is on day 1 of a new compartment while a
\* Removed node is on a later day than before
C19_Witness ==
    /\ Running
    /\ \E t \in 0 .. (Len(seirs) - 1) : \E n, m \in DOMAIN matrix :
         /\ \E c \in States : Hist(t)[n][c] = 0 /\ Hist(t + 1)[n][c] = 1
         /\ Hist(t)[m][R] > 0
         /\ Hist(t + 1)[m][R] = Hist(t)[m][R] + 1

\* C20: a node whose Exposed day counter is 1 after t steps was not Exposed
\* before, is Exposed with day counter j + 1 after t + j steps for every
\* j <= days_exposed, and is Infectious, with day counter 1, after exactly
\* t + days_exposed + 1 steps.
C20_ExposedDwell ==
    Running =>
        \A t \in 0 .. Len(seirs) : \A n \in DOMAIN matrix :
            Hist(t)[n][E] = 1 =>
                /\ t >= 1 /\ Hist(t - 1)[n][E] = 0
                /\ \A j \in 1 .. disease.days_exposed :
                       t + j <= Len(seirs) =>
                           /\ Hist(t + j)[n][E] = j + 1
                           /\ Hist(t + j)[n][I] = 0
                /\ t + disease.days_exposed + 1 <= Len(seirs) =>
                       /\ Hist(t + disease.days_exposed + 1)[n][E] = 0
                       /\ Hist(t + disease.days_exposed + 1)[n][I] = 1

\* with days_exposed >= 1, an Exposed node has become Infectious
\* days_exposed + 1 steps after its exposure
C20_Witness ==
    /\ Running
    /\ disease.days_exposed >= 1
    /\ \E t \in DOMAIN seirs : \E n \in DOMAIN matrix :
         /\ seirs[t][n][E] = 1
         /\ t + disease.days_exposed + 1 \in DOMAIN seirs
         /\ seirs[t + disease.days_exposed + 1][n][I] = 1

\* C21: a run leaves its inputs unchanged.  From the call of _simulate on,
\* no step changes the adjacency matrix, the disease or the starting state
\* passed in, so the starting state of every run of a batch is the state
\* init_func built.
C21_StartsSame ==
    \A k \in DOMAIN starts : starts[k] = initial_seir

C21_Frame ==
    /\ matrix' = matrix
    /\ disease' = disease
    /\ pc # "init" => initial_seir' = initial_seir

C21_InputsUnchanged == [] C21_StartsSame /\ [][C21_Frame]_vars

\* the second run of a batch under way, after a first run that returned,
\* with a working state that differs from the starting state
C21_Witness ==
    /\ Len(starts) = 2
    /\ Len(num_susceptible) >= 1
    /\ Len(seirs) >= 1
    /\ seir # initial_seir
    /\ starts[1] = starts[2]

\* node j, a neighbour of n, entered Infectious at some step t < s (or was
\* seeded, t = 0) and step s is one of the steps t + 1 .. t + days_infectious
InWindow(n, j, s) ==
    /\ matrix[n][j] > 0
    /\ \E t \in 0 .. (s - 1) :
         /\ Hist(t)[j][I] = 1
         /\ s <= t + disease.days_infectious

\* C22: a node that entered Infectious at step t contributes to the exposure
\* of its neighbours in the steps t + 1 .. t + days_infectious only.  A
\* Susceptible node is exposed in step s only if a neighbour has s in its
\* window, with transmission_prob = 1 it is exposed in every such step, and
\* with days_infectious = 0 no Susceptible node is ever exposed.
C22_TransmissionWindow ==
    Running =>
        \A s \in 1 .. Len(seirs) : \A n \in DOMAIN matrix :
            Hist(s - 1)[n][S] > 0 =>
                /\ Hist(s)[n][E] > 0 =>
                       \E j \in DOMAIN matrix : InWindow(n, j, s)
                /\ ( /\ disease.transmission_prob = <<1, 1>>
                     /\ \E j \in DOMAIN matrix : InWindow(n, j, s) )
                       => Hist(s)[n][E] > 0
                /\ disease.days_infectious = 0 => Hist(s)[n][S] > 0

\* a neighbour that entered Infectious at step t is still shown Infectious
\* in snapshot t + days_infectious, and the node is exposed in that step,
\* the last of the window
C22_Witness ==
    /\ Running
    /\ disease.days_infectious >= 1
    /\ \E t \in 0 .. (Len(seirs) - disease.days_infectious) :
       \E n, j \in DOMAIN matrix :
         /\ matrix[n][j] > 0
         /\ Hist(t)[j][I] = 1
         /\ Hist(t + disease.days_infectious)[j][I] = disease.days_infectious + 1
         /\ Hist(t + disease.days_infectious - 1)[n][S] > 0
         /\ Hist(t + disease.days_infectious)[n][E] = 1

\* the longest an Exposed or Infectious node takes to be Removed
MaxCourse == disease.days_exposed + disease.days_infectious + 2

\* a number of steps after which no chain of exposures is still under way:
\* a seeded node is Removed after days_infectious + 1 steps, and a node
\* exposed by a node Removed after T steps is Removed after at most
\* T + days_exposed + days_infectious + 1 steps
LongEnough ==
    disease.days_infectious + 1
        + (NumNodes - 1) * (disease.days_exposed + disease.days_infectious + 1)

\* C23: a node Exposed or Infectious after t steps is Removed after
\* t + days_exposed + days_infectious + 2 steps when the run has that many
\* steps, and after LongEnough steps or more every node is Susceptible or
\* Removed.
C23_Progress ==
    Running =>
        /\ \A t \in 0 .. Len(seirs) : \A n \in DOMAIN matrix :
               ( /\ Hist(t)[n][E] > 0 \/ Hist(t)[n][I] > 0
                 /\ t + MaxCourse <= Len(seirs) )
                   => Hist(t + MaxCourse)[n][R] > 0
        /\ Len(seirs) >= LongEnough =>
               \A n \in DOMAIN matrix :
                   CompartmentsOf(Hist(Len(seirs))[n]) \in { {S}, {R} }

\* a node that entered Exposed became Removed exactly
\* days_exposed + days_infectious + 2 steps later, not a step sooner, in a
\* run of at least LongEnough steps
C23_Witness ==
    /\ Running
    /\ Len(seirs) >= LongEnough
    /\ \E t \in 1 .. Len(seirs) : \E n \in DOMAIN matrix :
         /\ Hist(t)[n][E] = 1
         /\ t + MaxCourse <= Len(seirs)
         /\ Hist(t + MaxCourse - 1)[n][I] > 0
         /\ Hist(t + MaxCourse)[n][R] = 1

\* no node is Exposed or Infectious in state st
Absorbed(st) == \A n \in DOMAIN st : st[n][E] = 0 /\ st[n][I] = 0

\* C24: once the state after t steps has no Exposed and no Infectious node,
\* every node is in the same compartment in every later snapshot, whatever
\* the draws, and its day counter has grown by one per step.
C24_Absorption ==
    Running =>
        \A t \in 0 .. Len(seirs) :
            Absorbed(Hist(t)) =>
                \A u \in t .. Len(seirs) : \A n \in DOMAIN matrix :
                    \E c \in {S, R} :
                        /\ CompartmentsOf(Hist(t)[n]) = {c}
                        /\ CompartmentsOf(Hist(u)[n]) = {c}
                        /\ Hist(u)[n][c] = Hist(t)[n][c] + (u - t)

\* two steps or more after the epidemic died out at a positive transmission
\* probability, a Susceptible node is still next to a Removed one
C24_Witness ==
    /\ Running
    /\ disease.transmission_prob[1] > 0
    /\ \E t \in 1 .. (Len(seirs) - 2) :
         /\ ~ Absorbed(Hist(t - 1))
         /\ Absorbed(Hist(t))
         /\ \E n, j \in DOMAIN matrix :
              /\ matrix[n][j] > 0
              /\ Hist(Len(seirs))[n][S] > 0
              /\ Hist(Len(seirs))[j][R] > 0

=============================================================================
